---- MODULE Spec2Model ----
(***************************************************************************)
(* simple_arg_parser (src/src/lib.rs): the classification pass            *)
(* parse_arguments, its four predicates, and the entry points that feed   *)
(* it.  A Rust String is modelled as what it is: a sequence of UTF-8      *)
(* bytes.  Slicing is by byte offset and panics off a character boundary; *)
(* chars() decodes the bytes into code points.                            *)
(***************************************************************************)
EXTENDS Integers, Sequences, FiniteSets

VARIABLES env, args, idx, pc, arguments, positionals, options, flags,
          variables, insertions, dropped

vars == << env, args, idx, pc, arguments, positionals, options, flags,
           variables, insertions, dropped >>

(***************************************************************************)
(* Bounds of the explored inputs.                                          *)
(***************************************************************************)
\* at most this many tokens in one argument vector
MaxArgs == 2
\* at most this many characters, in total, after the tokens' leading dashes
MaxChars == 3

(***************************************************************************)
(* String literals of the source, as UTF-8 bytes.                          *)
(***************************************************************************)
Dash == << 45 >>
DashDash == << 45, 45 >>
EqStr == << 61 >>
EqChar == 61

\* The characters tokens are built from, each as its UTF-8 encoding:
\* '-', '=' and, for a letter, the two-byte U+00E9.
Alphabet == { << 45 >>, << 61 >>, << 195, 169 >> }

(***************************************************************************)
(* The std string operations the source calls.                             *)
(***************************************************************************)
StartsWith(s, p) ==
    /\ Len(s) >= Len(p)
    /\ SubSeq(s, 1, Len(p)) = p

Contains(s, p) ==
    \E i \in 0 .. (Len(s) - Len(p)) : SubSeq(s, i + 1, i + Len(p)) = p

\* str::is_char_boundary: offset 0 and offset len are boundaries, an offset
\* past the end is not, any other offset is one unless it holds a UTF-8
\* continuation byte (10xxxxxx).
IsCharBoundary(s, n) ==
    \/ n = 0
    \/ n = Len(s)
    \/ /\ n < Len(s)
       /\ ~ (s[n + 1] >= 128 /\ s[n + 1] < 192)

\* &s[n..]: the bytes from offset n on; ok is FALSE where Rust panics.
SliceFrom(s, n) ==
    [ ok  |-> IsCharBoundary(s, n),
      val |-> IF n <= Len(s) THEN SubSeq(s, n + 1, Len(s)) ELSE << >> ]

\* Number of bytes of the character whose first byte is b.
Utf8Width(b) ==
    IF b < 128 THEN 1 ELSE IF b < 224 THEN 2 ELSE IF b < 240 THEN 3 ELSE 4

\* The code point of the character encoded at the head of s.
DecodeHead(s) ==
    LET w == Utf8Width(s[1]) IN
    IF w = 1 THEN s[1]
    ELSE IF w = 2 THEN (s[1] - 192) * 64 + (s[2] - 128)
    ELSE IF w = 3 THEN (s[1] - 224) * 4096 + (s[2] - 128) * 64 + (s[3] - 128)
    ELSE (s[1] - 240) * 262144 + (s[2] - 128) * 4096
         + (s[3] - 128) * 64 + (s[4] - 128)

\* s.chars().collect(): the code points of s, left to right.
RECURSIVE Chars(_)
Chars(s) ==
    IF s = << >> THEN << >>
    ELSE << DecodeHead(s) >> \o Chars(SubSeq(s, Utf8Width(s[1]) + 1, Len(s)))

\* Byte offset (0-based) of the first occurrence of byte c in s at or after
\* offset from, or -1.
RECURSIVE FindFrom(_, _, _)
FindFrom(s, c, from) ==
    IF from >= Len(s) THEN -1
    ELSE IF s[from + 1] = c THEN from
    ELSE FindFrom(s, c, from + 1)

\* A split that searches from the second character on.
SplitOnceSkipFirst(s, c) ==
    LET at == FindFrom(s, c, 1) IN
    IF at < 0 THEN [ some |-> FALSE, before |-> << >>, after |-> << >> ]
    ELSE [ some |-> TRUE, before |-> SubSeq(s, 1, at),
           after |-> SubSeq(s, at + 2, Len(s)) ]

\* A split on the last occurrence of c (rsplit_once).
RECURSIVE FindLast(_, _, _)
FindLast(s, c, upto) ==
    IF upto = 0 THEN -1
    ELSE IF s[upto] = c THEN upto - 1
    ELSE FindLast(s, c, upto - 1)

SplitOnceLast(s, c) ==
    LET at == FindLast(s, c, Len(s)) IN
    IF at < 0 THEN [ some |-> FALSE, before |-> << >>, after |-> << >> ]
    ELSE [ some |-> TRUE, before |-> SubSeq(s, 1, at),
           after |-> SubSeq(s, at + 2, Len(s)) ]

\* s.split_once(c) for an ASCII c: None when c does not occur, else the
\* text before and the text after its first occurrence.
SplitOnce(s, c) ==
    LET at == FindFrom(s, c, 0) IN
    IF at < 0 THEN [ some |-> FALSE, before |-> << >>, after |-> << >> ]
    ELSE [ some |-> TRUE, before |-> SubSeq(s, 1, at),
           after |-> SubSeq(s, at + 2, Len(s)) ]

\* HashMap::insert that keeps the value already stored under k.
MapInsertKeepFirst(m, k, v) ==
    [ x \in (DOMAIN m) \cup {k} |-> IF x \in DOMAIN m THEN m[x] ELSE v ]

\* HashMap::insert: k maps to v afterwards, whatever it mapped to before.
MapInsert(m, k, v) ==
    [ x \in (DOMAIN m) \cup {k} |-> IF x = k THEN v ELSE m[x] ]

EmptyMap == [ x \in {} |-> << >> ]

(***************************************************************************)
(* impl CheckableIfArgument for String                                     *)
(***************************************************************************)
is_positional(s) == ~ StartsWith(s, Dash)

is_flag(s) == StartsWith(s, Dash) /\ ~ StartsWith(s, DashDash)

\* is_option without the test for '='.
is_option_any_long(s) == StartsWith(s, DashDash)

is_option(s) == StartsWith(s, DashDash) /\ ~ Contains(s, EqStr)

is_variable(s) == StartsWith(s, DashDash) /\ Contains(s, EqStr)

(***************************************************************************)
(* enum Argument                                                           *)
(***************************************************************************)
Positional(v) == [ tag |-> "Positional", value |-> v ]
Flag(c) == [ tag |-> "Flag", ch |-> c ]
Option(n) == [ tag |-> "Option", name |-> n ]
Variable(n, v) == [ tag |-> "Variable", name |-> n, value |-> v ]

\* << Flag(c1), Flag(c2), ... >> for the code points cs.
FlagsOf(cs) == [ i \in 1 .. Len(cs) |-> Flag(cs[i]) ]

(***************************************************************************)
(* parse_arguments: the accumulators and the body of the for loop.         *)
(* insertions counts the calls of variables.insert, dropped the times the  *)
(* None => continue arm ran, panicked records a slice that panics.         *)
(***************************************************************************)
NewAcc ==
    [ arguments   |-> << >>,
      positionals |-> << >>,
      options     |-> << >>,
      flags       |-> << >>,
      variables   |-> EmptyMap,
      insertions  |-> 0,
      dropped     |-> 0,
      panicked    |-> FALSE ]

\* A positional branch that goes to the front of both vectors.
PositionalBranchPrepend(acc, item) ==
    [ acc EXCEPT !.positionals = << item >> \o @,
                 !.arguments = << Positional(item) >> \o @ ]

\* A positional branch that lets a preceding flag take the token as its value.
PositionalBranchFlagValue(acc, item) ==
    IF /\ acc.arguments # << >>
       /\ acc.arguments[Len(acc.arguments)].tag = "Flag"
    THEN acc
    ELSE [ acc EXCEPT !.positionals = Append(@, item),
                      !.arguments = Append(@, Positional(item)) ]

PositionalBranch(acc, item) ==
    [ acc EXCEPT !.positionals = Append(@, item),
                 !.arguments = Append(@, Positional(item)) ]

\* A flag branch that pushes one Argument per byte of the cluster.
FlagBranchPerByte(acc, item) ==
    LET trimmed == SliceFrom(item, 1) IN
    IF ~ trimmed.ok THEN [ acc EXCEPT !.panicked = TRUE ]
    ELSE [ acc EXCEPT !.flags = @ \o Chars(trimmed.val),
                      !.arguments = @ \o FlagsOf(trimmed.val) ]

\* A flag branch that strips two bytes.
FlagBranchSliceTwo(acc, item) ==
    LET trimmed == SliceFrom(item, 2) IN
    IF ~ trimmed.ok THEN [ acc EXCEPT !.panicked = TRUE ]
    ELSE [ acc EXCEPT !.flags = @ \o Chars(trimmed.val),
                      !.arguments = @ \o FlagsOf(Chars(trimmed.val)) ]

\* A flag branch that ends the cluster at the first '='.
FlagBranchStopAtEq(acc, item) ==
    LET trimmed == SliceFrom(item, 1)
        cut == FindFrom(trimmed.val, EqChar, 0)
        kept == IF cut < 0 THEN trimmed.val ELSE SubSeq(trimmed.val, 1, cut)
    IN
    IF ~ trimmed.ok THEN [ acc EXCEPT !.panicked = TRUE ]
    ELSE [ acc EXCEPT !.flags = @ \o Chars(kept),
                      !.arguments = @ \o FlagsOf(Chars(kept)) ]

FlagBranch(acc, item) ==
    LET trimmed == SliceFrom(item, 1) IN
    IF ~ trimmed.ok THEN [ acc EXCEPT !.panicked = TRUE ]
    ELSE [ acc EXCEPT !.flags = @ \o Chars(trimmed.val),
                      !.arguments = @ \o FlagsOf(Chars(trimmed.val)) ]

OptionBranch(acc, item) ==
    LET trimmed == SliceFrom(item, 2) IN
    IF ~ trimmed.ok THEN [ acc EXCEPT !.panicked = TRUE ]
    ELSE [ acc EXCEPT !.options = Append(@, trimmed.val),
                      !.arguments = Append(@, Option(trimmed.val)) ]

VariableBranch(acc, item) ==
    LET trimmed == SliceFrom(item, 2)
        split == SplitOnce(trimmed.val, EqChar)
    IN
    IF ~ trimmed.ok THEN [ acc EXCEPT !.panicked = TRUE ]
    ELSE IF split.some
    THEN [ acc EXCEPT
             !.variables = MapInsert(@, split.before, split.after),
             !.insertions = @ + 1,
             !.arguments = Append(@, Variable(split.before, split.after)) ]
    ELSE [ acc EXCEPT !.dropped = @ + 1 ]

\* One iteration of `for item in args`: the if / else-if chain.
ProcessItem(acc, item) ==
    IF is_positional(item) THEN PositionalBranch(acc, item)
    ELSE IF is_flag(item) THEN FlagBranch(acc, item)
    ELSE IF is_option(item) THEN OptionBranch(acc, item)
    ELSE IF is_variable(item) THEN VariableBranch(acc, item)
    ELSE acc

\* The whole pass as a function of the argument vector; a panic ends it.
RECURSIVE ParseFrom(_, _)
ParseFrom(acc, xs) ==
    IF xs = << >> \/ acc.panicked THEN acc
    ELSE ParseFrom(ProcessItem(acc, Head(xs)), Tail(xs))

ParseArguments(xs) == ParseFrom(NewAcc, xs)

\* env::args().collect(): the process's argument vector, program name first.
CollectArgs(e) == e

(***************************************************************************)
(* The inputs explored.                                                    *)
(***************************************************************************)
RECURSIVE Concat(_)
Concat(ss) == IF ss = << >> THEN << >> ELSE Head(ss) \o Concat(Tail(ss))

\* Encodings of the character strings of exactly n characters.
RECURSIVE Bodies(_)
Bodies(n) ==
    IF n = 0 THEN { << >> }
    ELSE { c \o b : c \in Alphabet, b \in Bodies(n - 1) }

\* Number of characters of a token after its (at most two) leading dashes.
BodyChars(t) ==
    LET lead == IF StartsWith(t, DashDash) THEN 2
                ELSE IF StartsWith(t, Dash) THEN 1 ELSE 0
    IN Len(Chars(SubSeq(t, lead + 1, Len(t))))

Tokens ==
    { p \o b : p \in { << >>, Dash, DashDash },
               b \in UNION { Bodies(n) : n \in 0 .. MaxChars } }

\* The vectors of exactly n tokens with at most c body characters in total.
RECURSIVE VectorsOf(_, _)
VectorsOf(n, c) ==
    IF n = 0 THEN { << >> }
    ELSE UNION { { << t >> \o xs : xs \in VectorsOf(n - 1, c - BodyChars(t)) } :
                 t \in { u \in Tokens : BodyChars(u) <= c } }

ArgVectors == UNION { VectorsOf(n, MaxChars) : n \in 0 .. MaxArgs }

(***************************************************************************)
(* The state machine.                                                      *)
(***************************************************************************)
Init ==
    /\ env = << >>
    /\ args = << >>
    /\ idx = 0
    /\ pc = "main"
    /\ arguments = << >>
    /\ positionals = << >>
    /\ options = << >>
    /\ flags = << >>
    /\ variables = EmptyMap
    /\ insertions = 0
    /\ dropped = 0

Acc ==
    [ arguments   |-> arguments,
      positionals |-> positionals,
      options     |-> options,
      flags       |-> flags,
      variables   |-> variables,
      insertions  |-> insertions,
      dropped     |-> dropped,
      panicked    |-> pc = "panicked" ]

\* A caller hands parse_arguments a vector of its own making.
CallParseArguments ==
    /\ pc = "main"
    /\ \E xs \in ArgVectors : args' = xs
    /\ pc' = "loop"
    /\ UNCHANGED << env, idx, arguments, positionals, options, flags,
                    variables, insertions, dropped >>

\* collect_args_and_parse: parse_arguments(collect_args()).
CollectArgsAndParse ==
    /\ pc = "main"
    /\ \E e \in ArgVectors :
         /\ Len(e) >= 1
         /\ env' = e
         /\ args' = CollectArgs(e)
    /\ pc' = "loop"
    /\ UNCHANGED << idx, arguments, positionals, options, flags,
                    variables, insertions, dropped >>

\* One iteration of the for loop over args.
LoopBody ==
    /\ pc = "loop"
    /\ idx < Len(args)
    /\ LET next == ProcessItem(Acc, args[idx + 1]) IN
         /\ arguments' = next.arguments
         /\ positionals' = next.positionals
         /\ options' = next.options
         /\ flags' = next.flags
         /\ variables' = next.variables
         /\ insertions' = next.insertions
         /\ dropped' = next.dropped
         /\ pc' = IF next.panicked THEN "panicked" ELSE "loop"
    /\ idx' = idx + 1
    /\ UNCHANGED << env, args >>

\* The loop is exhausted: return ParsedArguments { ... }.
Return ==
    /\ pc = "loop"
    /\ idx = Len(args)
    /\ pc' = "returned"
    /\ UNCHANGED << env, args, idx, arguments, positionals, options, flags,
                    variables, insertions, dropped >>

Next ==
    \/ CallParseArguments
    \/ CollectArgsAndParse
    \/ LoopBody
    \/ Return

Spec == Init /\ [][Next]_vars

(***************************************************************************)
(* Vocabulary of the properties.                                           *)
(***************************************************************************)
\* The tokens the loop has consumed so far.
Consumed == SubSeq(args, 1, idx)

\* The token the next iteration takes.
Item == args[idx + 1]

\* An iteration of the loop is about to run.
AtItem == pc = "loop" /\ idx < Len(args)

HasTag(a, t) == a.tag = t
EntriesTagged(as, t) == SelectSeq(as, LAMBDA a : HasTag(a, t))

PositionalPayloads(as) ==
    LET es == EntriesTagged(as, "Positional") IN
    [ i \in 1 .. Len(es) |-> es[i].value ]

FlagPayloads(as) ==
    LET es == EntriesTagged(as, "Flag") IN [ i \in 1 .. Len(es) |-> es[i].ch ]

OptionPayloads(as) ==
    LET es == EntriesTagged(as, "Option") IN
    [ i \in 1 .. Len(es) |-> es[i].name ]

\* The number of characters of a UTF-8 string: its non-continuation bytes.
CharCount(s) ==
    Cardinality({ i \in 1 .. Len(s) : ~ (s[i] >= 128 /\ s[i] < 192) })

HasEq(s) == \E i \in 1 .. Len(s) : s[i] = 61

LeadsWithDash(s) == Len(s) >= 1 /\ s[1] = 45
LeadsWithTwoDashes(s) == Len(s) >= 2 /\ s[1] = 45 /\ s[2] = 45

\* How many of the four predicates hold of s.
PredicatesHolding(s) ==
    (IF is_positional(s) THEN 1 ELSE 0) + (IF is_flag(s) THEN 1 ELSE 0)
    + (IF is_option(s) THEN 1 ELSE 0) + (IF is_variable(s) THEN 1 ELSE 0)

\* The loop body with the predicates tested in the opposite order.
ProcessItemReversed(acc, item) ==
    IF is_variable(item) THEN VariableBranch(acc, item)
    ELSE IF is_option(item) THEN OptionBranch(acc, item)
    ELSE IF is_flag(item) THEN FlagBranch(acc, item)
    ELSE IF is_positional(item) THEN PositionalBranch(acc, item)
    ELSE acc

\* m1 with every key of m2 taking m2's value.
Override(m1, m2) ==
    [ x \in (DOMAIN m1) \cup (DOMAIN m2) |->
        IF x \in DOMAIN m2 THEN m2[x] ELSE m1[x] ]

\* C1: every token satisfies exactly one of is_positional, is_flag,
\* is_option, is_variable; each predicate is the stated test on the token's
\* leading dashes and its '='; and the loop body gives the same result when
\* the chain tests the predicates in the opposite order.
C1_Partition ==
    \A i \in 1 .. Len(args) :
        LET t == args[i] IN
        /\ PredicatesHolding(t) = 1
        /\ is_positional(t) <=> ~ LeadsWithDash(t)
        /\ is_flag(t) <=> (LeadsWithDash(t) /\ ~ LeadsWithTwoDashes(t))
        /\ is_option(t) <=> (LeadsWithTwoDashes(t) /\ ~ HasEq(t))
        /\ is_variable(t) <=> (LeadsWithTwoDashes(t) /\ HasEq(t))
        /\ ProcessItem(NewAcc, t) = ProcessItemReversed(NewAcc, t)

\* A finished pass over an option token and a variable token.
C1_Witness ==
    /\ pc = "returned"
    /\ Len(args) = 2
    /\ is_option(args[1])
    /\ is_variable(args[2])
    /\ Len(options) = 1
    /\ insertions = 1

\* C2: at every point of the pass, arguments.len() = positionals.len()
\* + flags.len() + options.len() + the number of variables.insert calls made,
\* overwritten ones included.
C2_LengthAccounting ==
    Len(arguments) = Len(positionals) + Len(flags) + Len(options) + insertions

\* A finished pass in which the second insertion overwrote the first.
C2_Witness ==
    /\ pc = "returned"
    /\ insertions = 2
    /\ Cardinality(DOMAIN variables) = 1
    /\ Len(arguments) = 2

\* C3: arguments is the concatenation, in input order, of what each
\* consumed token produces, and positionals, flags and options are the
\* payloads of arguments' Positional, Flag and Option entries in the same
\* order, duplicates kept.
C3_EncounterOrder ==
    pc \in { "loop", "returned" } =>
        /\ arguments =
             Concat([ i \in 1 .. idx |-> ProcessItem(NewAcc, args[i]).arguments ])
        /\ positionals = PositionalPayloads(arguments)
        /\ flags = FlagPayloads(arguments)
        /\ options = OptionPayloads(arguments)

\* A finished pass over two different positional tokens.
C3_Witness ==
    /\ pc = "returned"
    /\ Len(args) = 2
    /\ is_positional(args[1])
    /\ is_positional(args[2])
    /\ args[1] # args[2]
    /\ positionals = args

\* The index of the last Variable entry named n in as (0 if none).
LastVariableAt(as, n) ==
    LET at == { i \in 1 .. Len(as) : as[i].tag = "Variable" /\ as[i].name = n }
    IN IF at = {} THEN 0 ELSE CHOOSE i \in at : \A j \in at : j <= i

\* C4: the keys of variables are exactly the names of the Variable entries
\* of arguments, and each key maps to the value of the last Variable entry
\* of that name.
C4_LastWriteWins ==
    /\ DOMAIN variables =
         { arguments[i].name :
             i \in { j \in 1 .. Len(arguments) : arguments[j].tag = "Variable" } }
    /\ \A n \in DOMAIN variables :
         /\ LastVariableAt(arguments, n) > 0
         /\ variables[n] = arguments[LastVariableAt(arguments, n)].value

\* A finished pass over two variable tokens of one name and two values.
C4_Witness ==
    /\ pc = "returned"
    /\ Len(arguments) = 2
    /\ arguments[1].tag = "Variable"
    /\ arguments[2].tag = "Variable"
    /\ arguments[1].name = arguments[2].name
    /\ arguments[1].value # arguments[2].value
    /\ DOMAIN variables = { arguments[2].name }
    /\ variables[arguments[2].name] = arguments[2].value

\* C5: parse_arguments never panics and always comes to its return: the
\* slice [1..] of a flag token and the slice [2..] of an option or variable
\* token are in bounds and on a character boundary, the loop index never
\* passes the end, and the empty vector returns the all-empty result.
C5_Total ==
    /\ pc # "panicked"
    /\ idx <= Len(args)
    /\ pc = "returned" => idx = Len(args)
    /\ \A i \in 1 .. Len(args) :
         /\ is_flag(args[i]) => SliceFrom(args[i], 1).ok
         /\ (is_option(args[i]) \/ is_variable(args[i])) => SliceFrom(args[i], 2).ok
    /\ (pc = "returned" /\ args = << >>) =>
         /\ arguments = << >>
         /\ positionals = << >>
         /\ flags = << >>
         /\ options = << >>
         /\ variables = EmptyMap

\* A finished pass over a bare "-" and a bare "--".
C5_Witness ==
    /\ pc = "returned"
    /\ args = << Dash, DashDash >>

\* C6: for every way of cutting the vector in two, the result of the pass
\* is the results of the two parts put together: the four vectors
\* concatenated, the second part's map over the first's.
C6_NoLookahead ==
    pc = "returned" =>
        \A k \in 0 .. Len(args) :
            LET l == ParseArguments(SubSeq(args, 1, k))
                r == ParseArguments(SubSeq(args, k + 1, Len(args)))
            IN
            /\ arguments = l.arguments \o r.arguments
            /\ positionals = l.positionals \o r.positionals
            /\ flags = l.flags \o r.flags
            /\ options = l.options \o r.options
            /\ variables = Override(l.variables, r.variables)

\* A finished pass over a flag token followed by a positional.
C6_Witness ==
    /\ pc = "returned"
    /\ Len(args) = 2
    /\ is_flag(args[1])
    /\ Len(args[1]) > 1
    /\ is_positional(args[2])
    /\ arguments = << Flag(arguments[1].ch), Positional(args[2]) >>

\* C7: what collect_args hands to parse_arguments is the process's
\* argument vector without its first element, the program's own name.
C7_ProgramNameNotClassified ==
    (pc # "main" /\ env # << >>) => args = Tail(env)

\* C8: an iteration on a flag token appends one Flag per character of the
\* token after its leading '-', left to right, to arguments and to flags,
\* as many as that remainder has characters, '=' included, and changes
\* nothing else.
C8_FlagCluster ==
    [][ (AtItem /\ is_flag(Item)) =>
          LET cs == Chars(SubSeq(Item, 2, Len(Item))) IN
          /\ Len(cs) = CharCount(Item) - 1
          /\ arguments' = arguments \o [ i \in 1 .. Len(cs) |-> Flag(cs[i]) ]
          /\ flags' = flags \o cs
          /\ HasEq(Item) => \E i \in 1 .. Len(cs) : cs[i] = 61
          /\ Item = Dash => arguments' = arguments /\ flags' = flags
          /\ UNCHANGED << positionals, options, variables, insertions >>
     ]_vars

\* A finished pass over "-" followed by a cluster holding '='.
C8_Witness ==
    /\ pc = "returned"
    /\ Len(args) = 2
    /\ args[1] = Dash
    /\ is_flag(args[2])
    /\ HasEq(args[2])
    /\ Len(flags) = 3
    /\ flags[2] = 61

\* C9: an iteration on a variable token t appends Variable(name, value)
\* where name holds no '=' and "--" ++ name ++ "=" ++ value = t, and
\* stores value under name.
C9_SplitFirstEq ==
    [][ (AtItem /\ is_variable(Item)) =>
          /\ Len(arguments') = Len(arguments) + 1
          /\ LET e == arguments'[Len(arguments')] IN
               /\ e.tag = "Variable"
               /\ ~ HasEq(e.name)
               /\ DashDash \o e.name \o EqStr \o e.value = Item
               /\ e.name \in DOMAIN variables'
               /\ variables'[e.name] = e.value
     ]_vars

\* A finished pass that produced a variable whose value holds '='.
C9_Witness ==
    /\ pc = "returned"
    /\ \E i \in 1 .. Len(arguments) :
         /\ arguments[i].tag = "Variable"
         /\ HasEq(arguments[i].value)
         /\ arguments[i].name # << >>

\* C10: the None => continue arm never runs; an iteration on a positional,
\* option or variable token adds exactly one entry to arguments, and an
\* iteration adds no entry only on the bare flag token "-".
C10_NoSilentDrop ==
    [][ AtItem =>
          /\ dropped' = 0
          /\ ~ is_flag(Item) => Len(arguments') = Len(arguments) + 1
          /\ Len(arguments') = Len(arguments) => Item = Dash
     ]_vars

\* A finished pass over "--=" and "-": one entry, nothing dropped.
C10_Witness ==
    /\ pc = "returned"
    /\ args = << DashDash \o EqStr, Dash >>
    /\ arguments = << Variable(<< >>, << >>) >>
    /\ dropped = 0

====
